---- MODULE Spec2Model ----
(***************************************************************************)
(* State containers of sotajs.  src holds the aggregate factory in two     *)
(* versions, one built on Immer drafts with nested entities and one whose  *)
(* actions return {state, event}; both are modelled, next to the entity    *)
(* and value object factories.  One container instance is followed from    *)
(* its creation through action calls and event retrieval (Spec), and       *)
(* through the snapshots its caller reads from instance.state and tries to *)
(* write (SpecSnap).  The port registry of src/lib/di.v2.ts, with the      *)
(* Bottle container it keeps its bindings in, is followed through          *)
(* createPort, the bind calls, usePort and resetDI (SpecDI); equals() of   *)
(* the entity and value object classes is applied to pairs of instances    *)
(* (SpecEq).                                                               *)
(***************************************************************************)
EXTENDS Integers, Sequences, FiniteSets, TLC

\* ------------------------------------------------------------------ bounds
MaxItems == 1
MaxEvents == 2
\* invocations of one port's factory that are followed between two bind calls
MaxInvocations == 2
\* largest value the relation test's EntityB is incremented to
MaxValue == 2
\* concurrent scheduleAppointmentUseCase calls
MaxCalls == 3
\* TimeSlot instances built, the seeded one included
MaxSlots == 2

\* ------------------------------------------------------- value domains
Uuids == {"X", "Y"}
BadUuid == "not-a-uuid"
Statuses == {"pending", "paid", "shipped"}
Addresses == {"home", "pobox"}
ShortAddress == "x"
CustomerId == "C"
Product == "p"

RECURSIVE ItemsOfLen(_)
ItemsOfLen(n) == IF n = 0 THEN <<>> ELSE Append(ItemsOfLen(n - 1), Product)

ItemLists == {ItemsOfLen(n) : n \in 0..MaxItems}

\* raw input handed to a create() factory
RawCustomers == [id : {CustomerId, BadUuid}, address : Addresses]
RawOrders == [id : {"X", BadUuid}, status : Statuses \cup {"bogus"},
              items : ItemLists, customer : RawCustomers]

\* raw input of the Address value object: an empty city fails min(1), the
\* coordinates are optional
RawAddresses == [city : {"Anytown", "Othertown", ""},
                 coords : {"absent", "here", "hereAgain", "there"}]
\* the coordinate objects handed in: two objects with the same data, and one
\* with another longitude
Coords == [here |-> [lat |-> "10", lon |-> "20"],
           hereAgain |-> [lat |-> "10", lon |-> "20"],
           there |-> [lat |-> "10", lon |-> "21"]]

InvariantErrors == {"CannotShipEmpty", "NoPoBoxShipping"}

\* an action function of the configuration, described by what it does to
\* the state it is given: check a precondition (first thing, or last, after
\* the rest of its body has run), call the nested entity's action, change
\* items, assign status and id, return an event.  push and clear leave the
\* next state with an array of its own (a write to the draft in the Immer
\* version, [...state.items, p] or [] in the return-style version);
\* pushInPlace is state.items.push(p) on the state the function is given,
\* which is the draft in the Immer version and this.props in the other
AllActionFns == [pre : {"any", "pending"},
                 check : {"first", "last"},
                 addr : {"keep", ShortAddress} \cup Addresses,
                 status : {"keep", "paid", "shipped"},
                 items : {"keep", "push", "clear", "pushInPlace"},
                 id : {"keep", "Y"},
                 event : BOOLEAN]
\* the functions the instance is configured with: one that touches the
\* nested entity leaves items alone, and so does one with a precondition or
\* an assignment to id; the one that checks its precondition last does
\* nothing but call the nested entity's action before the check; the one
\* that pushes in place does nothing else
ActionFns == {a \in AllActionFns :
                /\ a.items = "pushInPlace" =>
                      (/\ a.pre = "any" /\ a.check = "first" /\ a.addr = "keep"
                       /\ a.status = "keep" /\ a.id = "keep" /\ ~a.event)
                /\ a.addr # "keep" => a.items = "keep"
                /\ a.check = "first" =>
                      ((a.pre # "any" \/ a.id # "keep") => (a.addr = "keep" /\ a.items = "keep"))
                /\ a.check = "last" =>
                      (/\ a.pre = "pending" /\ a.addr \in Addresses /\ a.status = "keep"
                       /\ a.items = "keep" /\ a.id = "keep" /\ ~a.event)}
EntityActionFns == [addr : {"keep", ShortAddress} \cup Addresses, id : {"keep", "Y"}]

\* ------------------------------------------------------------ schemas
CustomerInfoSchemaOK(c) == c.id = CustomerId
OrderSchemaOK(d) == /\ d.id \in Uuids
                    /\ d.status \in Statuses
                    /\ CustomerInfoSchemaOK(d.customer)

AddressSchemaOK(d) == d.city # ""

\* a nested array is a heap object: its contents and whether it is frozen
Cell(v, f) == [val |-> v, frozen |-> f]

\* schema.parse builds fresh, unfrozen objects
ParseOrder(d) == [id |-> d.id, status |-> d.status,
                  items |-> Cell(d.items, FALSE),
                  customer |-> [id |-> d.customer.id, address |-> d.customer.address]]

NoProps == [id |-> "", status |-> "", items |-> Cell(<<>>, FALSE),
            customer |-> [id |-> "", address |-> ""]]

\* --------------------------------------------------------- invariants
\* the configured invariants, in order; the first that raises is reported
CheckInvariants(s) ==
    IF s.status = "shipped" /\ s.items.val = <<>> THEN "CannotShipEmpty"
    ELSE IF s.status = "shipped" /\ s.customer.address = "pobox" THEN "NoPoBoxShipping"
    ELSE "none"

\* ------------------------------------------------------- utils.deepFreeze
deepFreeze(c) == [c EXCEPT !.frozen = TRUE]

\* ------------------------------------------------------------- entity
\* Entity.create: schema.parse, then the constructor stores the props
EntityCreate(c) ==
    IF CustomerInfoSchemaOK(c)
    THEN [err |-> "none", props |-> [id |-> c.id, address |-> c.address]]
    ELSE [err |-> "ZodError", props |-> NoProps.customer]

\* Entity.actions[name]: produce(currentState, recipe) and commit
EntityAction(e, addr, newId) ==
    IF addr = ShortAddress
    THEN [err |-> "AddressTooShort", props |-> e]
    ELSE [err |-> "none",
          props |-> [id |-> IF newId = "keep" THEN e.id ELSE newId,
                     address |-> IF addr = "keep" THEN e.address ELSE addr]]

EntityId(e) == e.id

\* Entity.state: deepFreeze({...props})
EntityState(e) == deepFreeze([top |-> e, frozen |-> FALSE])

\* ------------------------------------------------------- value object
NoValue == [top |-> [city |-> "", coords |-> "absent"], frozen |-> FALSE]

\* ValueObject.create: new ValueObject(schema.parse(data)), whose constructor
\* deep-freezes the props
ValueObjectCreate(d) ==
    IF AddressSchemaOK(d)
    THEN [err |-> "none", props |-> deepFreeze([top |-> d, frozen |-> FALSE])]
    ELSE [err |-> "ZodError", props |-> NoValue]

\* ---------------------------------------- what an action function does
NewStatus(s, a) == IF a.status = "keep" THEN s.status ELSE a.status
NewId(s, a) == IF a.id = "keep" THEN s.id ELSE a.id
NewItems(s, a) == CASE a.items = "keep" -> s.items.val
                    [] a.items \in {"push", "pushInPlace"} -> Append(s.items.val, Product)
                    [] a.items = "clear" -> <<>>

\* the action function's own check: if (state.status !== ...) throw
PreconditionError(s, a) ==
    IF a.pre # "any" /\ s.status # a.pre THEN "PreconditionFailed" ELSE "none"

\* -------------------------------------- aggregate, Immer-draft version
\* a create that hydrates and checks whatever it is given, without parsing
AggregateCreateUnparsed(d) ==
    LET props == ParseOrder(d)
        hydratedProps == [props EXCEPT !.customer = EntityCreate(props.customer).props]
    IN IF CheckInvariants(hydratedProps) # "none"
       THEN [err |-> CheckInvariants(hydratedProps), props |-> NoProps]
       ELSE [err |-> "none", props |-> hydratedProps]

\* Aggregate.create: parse, hydrate the nested entity, run the invariants
AggregateCreate(d) ==
    IF ~OrderSchemaOK(d) THEN [err |-> "ZodError", props |-> NoProps]
    ELSE LET props == ParseOrder(d)
             customer == EntityCreate(props.customer)
             hydratedProps == [props EXCEPT !.customer = customer.props]
         IN IF customer.err # "none" THEN [err |-> customer.err, props |-> NoProps]
            ELSE IF CheckInvariants(hydratedProps) # "none"
                 THEN [err |-> CheckInvariants(hydratedProps), props |-> NoProps]
                 ELSE [err |-> "none", props |-> hydratedProps]

AggregateId(p) == p.id

\* Aggregate.actions[name]: the recipe runs inside produce() on a draft of
\* the hydrated state.  The nested entity is a class instance, which the
\* draft hands out as it is, so its own action commits at once; the event is
\* pushed inside the recipe; produce() returns a deep-frozen tree that shares
\* every untouched plain object with the base; the invariants run last.  An
\* action function that raises makes produce() raise: the draft is dropped,
\* what the nested entity has committed by then stays.
AggregateAction(p, evs, a, tok) ==
    LET pre == PreconditionError(p, a)
        nested == IF a.addr = "keep"
                  THEN [err |-> "none", props |-> p.customer]
                  ELSE EntityAction(p.customer, a.addr, "keep")
        itemsNew == NewItems(p, a)
        copied == itemsNew # p.items.val
        nextState == [id |-> NewId(p, a), status |-> NewStatus(p, a),
                      items |-> Cell(itemsNew, TRUE), customer |-> nested.props]
        base == [p EXCEPT !.customer = nested.props,
                           !.items = IF copied THEN p.items ELSE deepFreeze(p.items)]
        evs1 == IF a.event THEN Append(evs, tok) ELSE evs
        inv == CheckInvariants(nextState)
    IN IF pre # "none" /\ a.check = "first"
       THEN [err |-> pre, props |-> p, events |-> evs, replaced |-> FALSE]
       ELSE IF nested.err # "none"
       THEN [err |-> nested.err, props |-> p, events |-> evs, replaced |-> FALSE]
       ELSE IF pre # "none"
       THEN [err |-> pre, props |-> [p EXCEPT !.customer = nested.props],
             events |-> evs, replaced |-> FALSE]
       ELSE IF inv # "none"
       THEN [err |-> inv, props |-> base, events |-> evs1, replaced |-> FALSE]
       ELSE [err |-> "none", props |-> nextState, events |-> evs1, replaced |-> copied]

\* Aggregate.getPendingEvents: copy the list, then empty it
AggregateGetPendingEvents(evs) == [ret |-> evs, events |-> <<>>]

\* Aggregate.clearEvents
AggregateClearEvents(evs) == <<>>

\* what a state accessor puts into the object it builds with { ...props }:
\* the top-level properties, whether the object is frozen, and the nested
\* array it refers to (alias: the very array the instance holds, so what the
\* object shows of it is what that array holds now)
Snapshot(top, f, alias, items) ==
    [has |-> TRUE, top |-> top, frozen |-> f, alias |-> alias, items |-> items]

NoSnap == [has |-> FALSE, top |-> NoProps.customer, frozen |-> FALSE,
           alias |-> FALSE, items |-> Cell(<<>>, FALSE)]

ObjectFreeze(s) == [s EXCEPT !.frozen = TRUE]

\* a state accessor that hands out the copy without freezing it
AggregateStateUnfrozen(p) ==
    Snapshot([id |-> p.id, status |-> p.status,
              customer |-> EntityState(p.customer).top],
             FALSE, TRUE, p.items)

\* a state accessor that leaves the hydrated entity instance in the copy
AggregateStateHydrated(p) ==
    ObjectFreeze(Snapshot([id |-> p.id, status |-> p.status,
                           customer |-> [state |-> EntityState(p.customer).top]],
                          FALSE, TRUE, p.items))

\* Aggregate.state: shallow copy, nested entity replaced by its own .state,
\* Object.freeze of the copy
AggregateState(p) ==
    ObjectFreeze(Snapshot([id |-> p.id, status |-> p.status,
                           customer |-> EntityState(p.customer).top],
                          FALSE, TRUE, p.items))

\* getters that evaluate on the properties of an instance just constructed
ComputedOfNoProps(p) ==
    [isPaid |-> NoProps.status = "paid", totalPrice |-> Len(NoProps.items.val)]

\* the getters defined on Aggregate.prototype: config.computed[key] applied
\* to aggregateProps.get(this); every item has price 1
Computed(p) ==
    [isPaid |-> p.status = "paid", totalPrice |-> Len(p.items.val)]

\* ---------------------------------------- aggregate, return-style version
\* Aggregate.create: schema.parse only
RSAggregateCreate(d) ==
    IF ~OrderSchemaOK(d) THEN [err |-> "ZodError", props |-> NoProps]
    ELSE [err |-> "none", props |-> ParseOrder(d)]

\* Aggregate.actions[name]: the action function is handed this.props itself
\* and returns {state, event}; invariants are checked on the returned state,
\* then props and event commit.  A function that builds its result with
\* { ...state } leaves this.props alone until the commit; one that pushes
\* onto state.items changes the array this.props holds, at once (a frozen
\* array refuses the push), and returns the object it was given.
RSAggregateAction(p, evs, a, tok) ==
    LET pre == PreconditionError(p, a)
        short == a.addr = ShortAddress
        inPlace == a.items = "pushInPlace"
        pushed == [p EXCEPT !.items.val = NewItems(p, a)]
        nextState == [id |-> NewId(p, a), status |-> NewStatus(p, a),
                      items |-> CASE a.items = "keep" -> p.items
                                  [] inPlace -> pushed.items
                                  [] OTHER -> Cell(NewItems(p, a), FALSE),
                      customer |-> [p.customer EXCEPT
                                      !.address = IF a.addr = "keep" THEN @ ELSE a.addr]]
        inv == CheckInvariants(nextState)
    IN IF pre # "none"
       THEN [err |-> pre, props |-> p, events |-> evs, replaced |-> FALSE]
       ELSE IF short
       THEN [err |-> "AddressTooShort", props |-> p, events |-> evs, replaced |-> FALSE]
       ELSE IF inPlace /\ p.items.frozen
       THEN [err |-> "TypeError", props |-> p, events |-> evs, replaced |-> FALSE]
       ELSE IF inv # "none"
       THEN [err |-> inv, props |-> IF inPlace THEN pushed ELSE p, events |-> evs,
             replaced |-> FALSE]
       ELSE [err |-> "none", props |-> nextState,
             events |-> IF a.event THEN Append(evs, tok) ELSE evs,
             replaced |-> a.items \in {"push", "clear"}]

\* Aggregate.getPendingEvents: returns a copy of the list
RSAggregateGetPendingEvents(evs) == [ret |-> evs, events |-> evs]

\* Aggregate.state: Object.freeze({...this.props})
RSAggregateState(p) ==
    ObjectFreeze(Snapshot([id |-> p.id, status |-> p.status, customer |-> p.customer],
                          FALSE, TRUE, p.items))

\* Entity.state as a snapshot of a stand-alone entity
EntitySnapshot(e) ==
    LET s == EntityState(e) IN Snapshot(s.top, s.frozen, FALSE, Cell(<<>>, TRUE))

\* ================================================== port registry (DI)
\* identifiers createPort() hands out, in the order it hands them out
Ports == {"P1", "P2"}
\* a handle that createPort() did not produce: it carries no identifier
FakeHandle == "fake"
Handles == Ports \cup {FakeHandle}
Undefined == "undefined"
Adapters == {"a1", "a2"}
\* what container.factory() is given: () => adapter, or a factory that
\* resolves another port, "P1", and builds the adapter on it
NoFactory == [kind |-> "none", adapter |-> "", dep |-> ""]
ConstFactory(a) == [kind |-> "const", adapter |-> a, dep |-> ""]
DepFactories == [kind : {"dep"}, adapter : {"f"}, dep : {"P1"}]

\* an implementation: an adapter, or what a factory built on the adapter it
\* resolved
NoImpl == [by |-> "", on |-> Undefined]
Impl(a) == [by |-> "", on |-> a]

RegistrationErrors == {"InvalidOrUnregisteredProvided", "InvalidOrUnregisteredUse"}
ResolutionError == "NoImplementationFound"

\* port[PORT_ID_SYMBOL]
PortId(h) == IF h \in Ports THEN h ELSE Undefined

\* new Bottle()
NewBottle == [providerMap |-> {},
              provider |-> [n \in Ports |-> NoFactory],
              service |-> [n \in Ports |-> NoImpl]]

\* a factory() that starts the container over for the one name
BottleFactoryAlone(c, name, F) ==
    [providerMap |-> {name},
     provider |-> [n \in Ports |-> IF n = name THEN F ELSE NoFactory],
     service |-> [n \in Ports |-> NoImpl]]

\* Bottle.factory(name, Factory): defines the provider and the lazy getter
\* of the service; a name whose service has been instantiated keeps it
\* ("provider already instantiated" goes to console.error)
BottleFactory(c, name, F) ==
    IF name \in c.providerMap /\ c.provider[name] = NoFactory
    THEN c
    ELSE [providerMap |-> c.providerMap \cup {name},
          provider |-> [c.provider EXCEPT ![name] = F],
          service |-> [c.service EXCEPT ![name] = NoImpl]]

Resolved(err, ret, c, ran) == [err |-> err, ret |-> ret, container |-> c, ran |-> ran]

RECURSIVE usePort(_, _, _)

\* container.container[portId]: the cached service, or the provider's
\* factory invoked now and its result cached in place of the provider; ran
\* lists whose factory was invoked.  A factory that raises leaves its
\* provider in place.
ContainerGet(reg, c, name) ==
    IF c.service[name] # NoImpl THEN Resolved("none", c.service[name], c, {})
    ELSE IF c.provider[name] = NoFactory THEN Resolved("none", NoImpl, c, {})
    ELSE LET F == c.provider[name]
             dep == usePort(reg, c, F.dep)
             made == IF F.kind = "const" THEN Impl(F.adapter) ELSE [by |-> F.adapter, on |-> dep.ret.on]
             c1 == IF F.kind = "const" THEN c ELSE dep.container
             ran == IF F.kind = "const" THEN {name} ELSE {name} \cup dep.ran
         IN IF F.kind = "dep" /\ dep.err # "none"
            THEN Resolved(dep.err, NoImpl, c1, ran)
            ELSE Resolved("none", made,
                          [c1 EXCEPT !.provider[name] = NoFactory,
                                     !.service[name] = made],
                          ran)

\* a usePort that hands out whatever the container holds
usePortUnguarded(reg, c, h) ==
    LET portId == PortId(h)
    IN IF portId = Undefined \/ portId \notin reg
       THEN Resolved("InvalidOrUnregisteredUse", NoImpl, c, {})
       ELSE ContainerGet(reg, c, portId)

\* a usePort that looks the handle up without asking the registry
usePortUnregistered(reg, c, h) ==
    LET portId == PortId(h)
        got == IF portId \in Ports THEN ContainerGet(reg, c, portId)
               ELSE Resolved("none", NoImpl, c, {})
    IN IF got.err = "none" /\ got.ret = NoImpl
       THEN Resolved(ResolutionError, NoImpl, got.container, got.ran)
       ELSE got

\* a usePort that takes the implementation out of the container
usePortConsuming(reg, c, h) ==
    LET portId == PortId(h)
    IN IF portId = Undefined \/ portId \notin reg
       THEN Resolved("InvalidOrUnregisteredUse", NoImpl, c, {})
       ELSE LET got == ContainerGet(reg, c, portId)
            IN IF got.err = "none" /\ got.ret = NoImpl
               THEN Resolved(ResolutionError, NoImpl, got.container, got.ran)
               ELSE [got EXCEPT !.container.service[portId] = NoImpl]

\* usePort(port)
usePort(reg, c, h) ==
    LET portId == PortId(h)
    IN IF portId = Undefined \/ portId \notin reg
       THEN Resolved("InvalidOrUnregisteredUse", NoImpl, c, {})
       ELSE LET got == ContainerGet(reg, c, portId)
            IN IF got.err = "none" /\ got.ret = NoImpl
               THEN Resolved(ResolutionError, NoImpl, got.container, got.ran)
               ELSE got

\* createPort(): a fresh identifier, recorded in portRegistry
createPort(reg) ==
    LET portId == IF "P1" \notin reg THEN "P1" ELSE "P2"
    IN [port |-> portId, registry |-> reg \cup {portId}]

\* setPortAdapter(port, adapter) and setPortAdapterWithDependencies(port,
\* factory): the registry check, then container.factory(portId, ...), which
\* invokes no factory (ran is empty)
setPortAdapter(reg, c, h, a) ==
    LET portId == PortId(h)
    IN IF portId = Undefined \/ portId \notin reg
       THEN Resolved("InvalidOrUnregisteredProvided", NoImpl, c, {})
       ELSE Resolved("none", NoImpl, BottleFactory(c, portId, ConstFactory(a)), {})

setPortAdapterWithDependencies(reg, c, h, F) ==
    LET portId == PortId(h)
    IN IF portId = Undefined \/ portId \notin reg
       THEN Resolved("InvalidOrUnregisteredProvided", NoImpl, c, {})
       ELSE Resolved("none", NoImpl, BottleFactory(c, portId, F), {})

\* a reset that leaves the container as it is
resetDIKeeps(c) == c

\* resetDI(): container = new Bottle(); portRegistry is left alone
resetDI(c) == NewBottle

\* ============================================================ equality
\* the entity classes of the tests, and the attribute they have next to id
Names == {"Ann", "Bob"}
\* which createEntity built the classes: src/lib/entity.ts or the Immer one
EntityVersions == {"entity", "immerEntity"}

\* an operand of equals(): an instance of an entity class or of the Address
\* value object, or null / undefined.  props.id is what the schema parsed:
\* the string id (ref 0), or, when the id schema ends in
\* .transform(id => ProductId.create(id)), a BrandedId object holding it
\* (ref: which object, a new one at every create)
Operand(tag, type, id, ref, name, city, coords) ==
    [tag |-> tag, type |-> type, id |-> id, ref |-> ref, name |-> name,
     city |-> city, coords |-> coords]
NoOperand == Operand("none", "", "", 0, "", "", "absent")
Nullish(o) == o.tag \in {"null", "undefined"}

\* this.id === other.id: two strings are compared by value, two objects by
\* identity, and a string is never an object
StrictEqualIds(this, other) ==
    IF this.ref = 0 /\ other.ref = 0 THEN this.id = other.id
    ELSE this.ref = other.ref

\* Entity.equals of src/lib/entity.ts
EntityEquals(this, other) ==
    IF Nullish(other) THEN FALSE
    ELSE this.type = other.type /\ StrictEqualIds(this, other)

\* Entity.equals of the Immer version
ImmerEntityEquals(this, other) ==
    IF Nullish(other) THEN FALSE
    ELSE StrictEqualIds(this, other)

\* a serialisation that leaves nested objects out
JSONStringifyShallow(o) == <<"{", "city", o.city, "}">>

\* JSON.stringify(props): the attributes in the schema's order, an absent
\* optional attribute left out, a nested object written out in full
JSONStringify(o) ==
    <<"{", "city", o.city>>
    \o (IF o.coords = "absent" THEN <<>>
        ELSE <<"coords", "{", "lat", Coords[o.coords].lat,
               "lon", Coords[o.coords].lon, "}">>)
    \o <<"}">>

\* ValueObject.equals
ValueObjectEquals(this, other) ==
    IF Nullish(other) THEN FALSE
    ELSE JSONStringify(this) = JSONStringify(other)

Equals(this, other) ==
    CASE this.tag = "entity" -> EntityEquals(this, other)
      [] this.tag = "immerEntity" -> ImmerEntityEquals(this, other)
      [] this.tag = "vo" -> ValueObjectEquals(this, other)

\* the same full attribute set: the same attributes present, with deeply
\* equal values
DeepEqual(a, b) ==
    /\ a.city = b.city
    /\ (a.coords = "absent") = (b.coords = "absent")
    /\ (a.coords # "absent" /\ b.coords # "absent") => Coords[a.coords] = Coords[b.coords]

\* ================================================================ state
\* ================================================== relation (linker)
\* the createAggregate the relation module imports: either version
AggregateVersions == {"rs", "immer"}

\* what a link function does: optionally entityA.actions.updateName(name),
\* then optionally entityB.actions.incrementValue(), and where it raises
LinkFns == [name : {"linked", "renamed", "keep"},
            increment : BOOLEAN,
            raises : {"never", "afterA", "afterB"}]

\* EntityA.actions.updateName, EntityB.actions.incrementValue, on classes
\* built by version v of createAggregate.  The action functions return
\* { state: { ...state, ... } } and leave their argument as it is: the
\* return-style version commits the state returned, the Immer version runs
\* them on a draft, drops what they return and commits the unchanged draft
updateName(v, a, newName) == IF v = "rs" THEN [a EXCEPT !.name = newName] ELSE a
incrementValue(v, b) == IF v = "rs" THEN [b EXCEPT !.value = @ + 1] ELSE b

\* the user-supplied link function, run on the two instances
linkFn(v, fn, a, b) ==
    LET a1 == IF fn.name = "keep" THEN a ELSE updateName(v, a, fn.name)
        b1 == IF fn.increment THEN incrementValue(v, b) ELSE b
    IN IF fn.raises = "afterA"
       THEN [err |-> "LinkFailed", entityA |-> a1, entityB |-> b]
       ELSE IF fn.raises = "afterB"
       THEN [err |-> "LinkFailed", entityA |-> a1, entityB |-> b1]
       ELSE [err |-> "none", entityA |-> a1, entityB |-> b1]

NoLinker == [version |-> "none", linked |-> FALSE]

\* Relation.create(): schema.parse(undefined) of the optional schema
RelationCreate(v) == [version |-> v, linked |-> FALSE]

\* relation.actions.link({entityA, entityB}): the action function runs the
\* link function on the instances themselves, which are classes of the same
\* createAggregate as the relation, then assigns the two instances to the
\* state and returns nothing.  The return-style version destructures the
\* result of the action function, which raises TypeError; the Immer version
\* commits the draft.
RelationLink(l, fn, a, b) ==
    LET r == linkFn(l.version, fn, a, b)
    IN IF r.err # "none"
       THEN [err |-> r.err, linker |-> l, entityA |-> r.entityA, entityB |-> r.entityB]
       ELSE IF l.version = "rs"
       THEN [err |-> "TypeError", linker |-> l,
             entityA |-> r.entityA, entityB |-> r.entityB]
       ELSE [err |-> "none", linker |-> [l EXCEPT !.linked = TRUE],
             entityA |-> r.entityA, entityB |-> r.entityB]

\* relation.state, compared by deep equality: the two instances it holds
\* are shown by their own state
RelationState(l, a, b) ==
    IF l.linked THEN <<a, b>> ELSE <<>>

\* ============================================ entity, return-style version
\* the Order entity of the reference: id, status, items
EntityStatuses == {"pending", "confirmed", "shipped"}
RawEntityOrders == [id : Uuids \cup {BadUuid}, status : EntityStatuses, items : ItemLists]

\* its action functions: updateStatus and addItem return a new state built
\* with spread; pushItem changes the array it is given and returns the state
RSEntityActionFns == [name : {"updateStatus"}, status : EntityStatuses, item : {Product}]
                        \cup [name : {"addItem", "pushItem"}, status : {"keep"},
                              item : {Product, "q"}]

NoEntityProps == [id |-> "", status |-> "", items |-> Cell(<<>>, FALSE)]

\* Entity.create: schema.parse, then the constructor stores the props
RSEntityCreate(d) ==
    IF d.id \in Uuids
    THEN [err |-> "none",
          props |-> [id |-> d.id, status |-> d.status, items |-> Cell(d.items, FALSE)]]
    ELSE [err |-> "ZodError", props |-> NoEntityProps]

\* Entity.state: deepFreeze({ ...this.props }); the copy is shallow, so the
\* array deepFreeze reaches and freezes is the one this.props holds
RSEntityState(p) ==
    [ret |-> [id |-> p.id, status |-> p.status, items |-> deepFreeze(p.items)],
     props |-> [p EXCEPT !.items = deepFreeze(p.items)]]

\* Entity.actions[name]: the action function is run on this.props and what
\* it returns becomes this.props
RSEntityAction(p, fn) ==
    CASE fn.name = "updateStatus" ->
            IF p.status = "shipped"
            THEN [err |-> "CannotChangeShipped", props |-> p]
            ELSE [err |-> "none", props |-> [p EXCEPT !.status = fn.status]]
      [] fn.name = "addItem" ->
            [err |-> "none",
             props |-> [p EXCEPT !.items = Cell(Append(p.items.val, fn.item), FALSE)]]
      [] fn.name = "pushItem" ->
            IF p.items.frozen
            THEN [err |-> "TypeError", props |-> p]
            ELSE [err |-> "none",
                  props |-> [p EXCEPT !.items.val = Append(p.items.val, fn.item)]]

\* ========================================== booking example
\* the calls in flight; a call's number stands for the identifier
\* crypto.randomUUID() gives its appointment
Calls == 1..MaxCalls
\* the seeded time slot, a well-formed identifier of no slot, a malformed one
SeededSlot == "S"

\* the TimeSlot instances are numbered from 1 in the order they are built;
\* 0 stands for undefined
NoCall == [pc |-> "idle", slotId |-> "", timeSlot |-> 0, err |-> "none"]

\* slot.id of a TimeSlot instance: the Immer version has an id getter, the
\* class of the return-style version has none
TimeSlotId(slot) == IF slot.version = "rs" THEN Undefined ELSE slot.id

\* findTimeSlotByIdMemory: timeSlots.get(id)
findTimeSlotByIdMemory(ts, id) == IF id \in DOMAIN ts THEN ts[id] ELSE 0

\* TimeSlot.actions.book: the action function raises on a booked slot, else
\* returns { state: { ...state, isBooked: true } }; the return-style version
\* commits the state returned, the Immer version commits the unchanged draft
TimeSlotBook(slot) ==
    IF slot.isBooked
    THEN [err |-> "AlreadyBooked", props |-> slot]
    ELSE IF slot.version = "rs"
    THEN [err |-> "none", props |-> [slot EXCEPT !.isBooked = TRUE]]
    ELSE [err |-> "none", props |-> slot]

\* TimeSlot.actions.cancelBooking: raises on a slot that is not booked, else
\* returns { state: { ...state, isBooked: false } }, committed as above
TimeSlotCancelBooking(slot) ==
    IF ~slot.isBooked
    THEN [err |-> "NotBooked", props |-> slot]
    ELSE IF slot.version = "rs"
    THEN [err |-> "none", props |-> [slot EXCEPT !.isBooked = FALSE]]
    ELSE [err |-> "none", props |-> slot]

\* Appointment.create: refuses a booked slot, else takes the slot's id as
\* slotId, validates the state with AppointmentSchema.parse, builds the
\* appointment and adds AppointmentCreatedEvent to its pending events
AppointmentCreate(c, slot) ==
    IF slot.isBooked
    THEN [err |-> "CannotCreateForBookedSlot",
          appointment |-> [id |-> c, slotId |-> TimeSlotId(slot), event |-> FALSE]]
    ELSE IF TimeSlotId(slot) = Undefined
    THEN [err |-> "ZodError",
          appointment |-> [id |-> c, slotId |-> TimeSlotId(slot), event |-> FALSE]]
    ELSE [err |-> "none",
          appointment |-> [id |-> c, slotId |-> TimeSlotId(slot), event |-> TRUE]]

\* saveAppointmentMemory: with an AppointmentCreatedEvent pending, the check
\* of the slot the map holds under event.slotToReserve, slot.actions.book(),
\* timeSlots.set(slot.id, slot) and appointments.set run with no await
\* between them; appointment.clearEvents() ends it
saveAppointmentMemory(ts, objs, apps, appointment) ==
    LET stored == apps \cup {[id |-> appointment.id, slotId |-> appointment.slotId]}
        unchanged == [timeSlots |-> ts, slotObjects |-> objs]
    IN IF ~appointment.event
       THEN [err |-> "none", appointments |-> stored] @@ unchanged
       ELSE IF appointment.slotId \notin DOMAIN ts
       THEN [err |-> "FailedToReserve", appointments |-> apps] @@ unchanged
       ELSE LET slotToReserve == ts[appointment.slotId]
                booked == TimeSlotBook(objs[slotToReserve])
            IN IF objs[slotToReserve].isBooked
               THEN [err |-> "FailedToReserve", appointments |-> apps] @@ unchanged
               ELSE [err |-> "none",
                     timeSlots |-> (TimeSlotId(booked.props) :> slotToReserve) @@ ts,
                     slotObjects |-> [objs EXCEPT ![slotToReserve] = booked.props],
                     appointments |-> stored]

\* ======================================= two instances of one class
\* the keys of the class's WeakMaps: two instances made from one raw object
Instances == {"i1", "i2"}

\* the action functions the two instances are called with
PairActionFns == {a \in ActionFns : /\ a.check = "first" /\ a.pre = "any" /\ a.id = "keep"
                                    /\ a.addr \in {"keep", "pobox"}
                                    /\ a.items # "clear"}

\* a store that keeps one value for the class, whatever the instance
WeakMapSetForAll(m, k, v) == [x \in DOMAIN m |-> v]

\* aggregateProps.set(this, v), aggregateEvents.set(this, v),
\* entityProps.set(this, v); this.props = v, this.pendingEvents = v
WeakMapSet(m, k, v) == [m EXCEPT ![k] = v]

VARIABLES
    kind,       \* which factory built the instance: "none" before create
    props,      \* the aggregate's internal properties
    ent,        \* the stand-alone entity's internal properties
    vo,         \* the value object's props
    events,     \* the aggregate's pending-events list
    nextEv,     \* number of event objects built so far
    returned,   \* events some getPendingEvents() call has returned
    snap,       \* the value the caller last read from instance.state
    last,       \* the last call and how it ended
    portRegistry,   \* identifiers createPort() has handed out
    container,      \* the Bottle the module holds
    lastBind,   \* per port, what the latest bind call since the last reset was given
    binds,      \* per port, bind calls since the last reset: 0, 1, 2 for more
    prior,      \* per port, what it was bound or resolved to when resetDI() ran
    invoked,    \* per port, invocations of its factory since the latest bind call
    failed,     \* ports whose factory has raised since the latest bind call
    left,       \* the instance equals() is called on
    right,      \* the instance it is compared with
    cleared,    \* clearEvents() has run and no event-producing call has succeeded since
    origin,     \* the entity's properties as the instance was constructed with them
    entityA,    \* the properties of the relation test's EntityA instance
    entityB,    \* the properties of its EntityB instance
    linker,     \* the relation instance
    pairKind,       \* which factory built the two instances: "none" before
    aggregateProps, \* per instance, the aggregate's internal properties
    aggregateEvents,\* per instance, its pending-events list
    entityProps,    \* per instance, the entity's internal properties
    pairEv,         \* number of event objects the two instances' actions have built
    rsEntity,       \* the return-style entity's props: "none" in id before create
    timeSlots,      \* the time-slot repository: per key, the TimeSlot instance
    slotObjects,    \* per TimeSlot instance built, its class's version and its props
    direct,         \* a TimeSlot or saveTimeSlotMemory was called outside the use case
    appointments,   \* the appointment repository
    calls           \* per use-case call, where it is and what it holds

instanceVars == <<kind, props, ent, vo, events, nextEv, returned, snap, cleared,
                  origin>>
diVars == <<portRegistry, container, lastBind, binds, prior, invoked, failed>>
eqVars == <<left, right>>
relVars == <<entityA, entityB, linker>>
pairVars == <<pairKind, aggregateProps, aggregateEvents, entityProps, pairEv>>
bookingVars == <<timeSlots, slotObjects, direct, appointments, calls>>
outsideInstance == <<diVars, eqVars, relVars, pairVars, rsEntity, bookingVars>>
outsideDI == <<instanceVars, eqVars, relVars, pairVars, rsEntity, bookingVars>>
outsideEq == <<instanceVars, diVars, relVars, pairVars, rsEntity, bookingVars>>
outsideRel == <<instanceVars, diVars, eqVars, pairVars, rsEntity, bookingVars>>
outsidePair == <<instanceVars, diVars, eqVars, relVars, rsEntity, bookingVars>>
outsideEntity == <<instanceVars, diVars, eqVars, relVars, pairVars, bookingVars>>
outsideBooking == <<instanceVars, diVars, eqVars, relVars, pairVars, rsEntity, last>>
vars == <<kind, props, ent, vo, events, nextEv, returned, snap, last,
          portRegistry, container, lastBind, binds, prior, invoked, failed,
          left, right, cleared, origin, entityA, entityB, linker,
          pairKind, aggregateProps, aggregateEvents, entityProps, pairEv,
          rsEntity, timeSlots, slotObjects, direct, appointments, calls>>

Aggregates == {"agg", "rsagg"}

Call(op, target, err, data, nested, ret) ==
    [op |-> op, target |-> target, err |-> err, data |-> data,
     nested |-> nested, ret |-> ret]

NoData == [id |-> "", address |-> ""]

Range(q) == {q[i] : i \in DOMAIN q}

\* the value instance.state shows, compared by deep equality
Observable(k, p, e) ==
    IF k = "entity" THEN [id |-> e.id, address |-> e.address]
    ELSE [id |-> p.id, status |-> p.status, items |-> p.items.val,
          customer |-> p.customer]

\* the value instance.id shows: the entity and the Immer aggregate have an
\* id getter, the class of the return-style aggregate defines none
Identity(k, p, e) ==
    CASE k = "entity" -> EntityId(e)
      [] k = "rsagg" -> Undefined
      [] OTHER -> AggregateId(p)

Init ==
    /\ kind = "none"
    /\ props = NoProps
    /\ ent = NoProps.customer
    /\ vo = NoValue
    /\ events = <<>>
    /\ nextEv = 0
    /\ returned = {}
    /\ snap = NoSnap
    /\ last = Call("init", "none", "none", NoData, FALSE, <<>>)
    /\ portRegistry = {}
    /\ container = NewBottle
    /\ lastBind = [n \in Ports |-> NoFactory]
    /\ binds = [n \in Ports |-> 0]
    /\ prior = [n \in Ports |-> NoImpl]
    /\ invoked = [n \in Ports |-> 0]
    /\ failed = {}
    /\ left = NoOperand
    /\ right = NoOperand
    /\ cleared = FALSE
    /\ origin = NoProps.customer
    /\ entityA = [id |-> "a1", name |-> "initial"]
    /\ entityB = [id |-> "b1", value |-> 0]
    /\ linker = NoLinker
    /\ pairKind = "none"
    /\ aggregateProps = [i \in Instances |-> NoProps]
    /\ aggregateEvents = [i \in Instances |-> <<>>]
    /\ entityProps = [i \in Instances |-> NoProps.customer]
    /\ pairEv = 0
    /\ rsEntity = NoEntityProps
    /\ timeSlots = <<>>
    /\ slotObjects = <<>>
    /\ direct = FALSE
    /\ appointments = {}
    /\ calls = [c \in Calls |-> NoCall]

\* ------------------------------------------------------------- create
CreateAggregate(d) ==
    /\ kind = "none"
    /\ LET r == AggregateCreate(d)
       IN /\ kind' = IF r.err = "none" THEN "agg" ELSE "none"
          /\ props' = r.props
          /\ origin' = r.props.customer
          /\ last' = Call("create", "agg", r.err, d, FALSE, <<>>)
    /\ UNCHANGED <<ent, vo, events, nextEv, returned, snap>>
    /\ UNCHANGED <<cleared, outsideInstance>>

CreateRSAggregate(d) ==
    /\ kind = "none"
    /\ LET r == RSAggregateCreate(d)
       IN /\ kind' = IF r.err = "none" THEN "rsagg" ELSE "none"
          /\ props' = r.props
          /\ origin' = r.props.customer
          /\ last' = Call("create", "rsagg", r.err, d, FALSE, <<>>)
    /\ UNCHANGED <<ent, vo, events, nextEv, returned, snap>>
    /\ UNCHANGED <<cleared, outsideInstance>>

CreateEntity(c) ==
    /\ kind = "none"
    /\ LET r == EntityCreate(c)
       IN /\ kind' = IF r.err = "none" THEN "entity" ELSE "none"
          /\ ent' = r.props
          /\ origin' = r.props
          /\ last' = Call("create", "entity", r.err, c, FALSE, <<>>)
    /\ UNCHANGED <<props, vo, events, nextEv, returned, snap>>
    /\ UNCHANGED <<cleared, outsideInstance>>

CreateValueObject(d) ==
    /\ kind = "none"
    /\ LET r == ValueObjectCreate(d)
       IN /\ kind' = IF r.err = "none" THEN "vo" ELSE "none"
          /\ vo' = r.props
          /\ last' = Call("create", "vo", r.err, d, FALSE, <<>>)
    /\ UNCHANGED <<props, ent, events, nextEv, returned, snap>>
    /\ UNCHANGED <<cleared, origin, outsideInstance>>

\* ------------------------------------------------------------ actions
\* a snapshot read earlier keeps the array it referred to when the instance
\* commits a state that holds another array
Detach(replaced) ==
    IF snap.has /\ snap.alias /\ replaced
    THEN [snap EXCEPT !.alias = FALSE, !.items = props.items]
    ELSE snap

CallAction(a) ==
    /\ kind \in Aggregates
    /\ a.items \in {"push", "pushInPlace"} => Len(props.items.val) < MaxItems
    /\ a.event => nextEv < MaxEvents
    /\ LET r == IF kind = "agg"
                THEN AggregateAction(props, events, a, nextEv + 1)
                ELSE RSAggregateAction(props, events, a, nextEv + 1)
       IN /\ props' = r.props
          /\ events' = r.events
          /\ nextEv' = IF Len(r.events) > Len(events) THEN nextEv + 1 ELSE nextEv
          /\ snap' = Detach(r.replaced)
          /\ last' = Call("action", kind, r.err, NoData,
                          /\ kind = "agg"
                          /\ a.addr # "keep"
                          /\ ~(r.err = "PreconditionFailed" /\ a.check = "first"),
                          <<>>)
          /\ cleared' = IF r.err = "none" /\ a.event THEN FALSE ELSE cleared
    /\ UNCHANGED <<kind, ent, vo, returned>>
    /\ UNCHANGED <<origin, outsideInstance>>

CallEntityAction(a) ==
    /\ kind = "entity"
    /\ LET r == EntityAction(ent, a.addr, a.id)
       IN /\ ent' = r.props
          /\ last' = Call("action", kind, r.err, NoData, FALSE, <<>>)
    /\ UNCHANGED <<kind, props, vo, events, nextEv, returned, snap>>
    /\ UNCHANGED <<cleared, origin, outsideInstance>>

\* ------------------------------------------------------------- events
GetPendingEvents ==
    /\ kind \in Aggregates
    /\ LET r == IF kind = "agg"
                THEN AggregateGetPendingEvents(events)
                ELSE RSAggregateGetPendingEvents(events)
       IN /\ events' = r.events
          /\ returned' = returned \cup Range(r.ret)
          /\ last' = Call("getPendingEvents", kind, "none", NoData, FALSE, r.ret)
    /\ UNCHANGED <<kind, props, ent, vo, nextEv, snap>>
    /\ UNCHANGED <<cleared, origin, outsideInstance>>

ClearEvents ==
    /\ kind \in Aggregates
    /\ events' = AggregateClearEvents(events)
    /\ cleared' = TRUE
    /\ last' = Call("clearEvents", kind, "none", NoData, FALSE, <<>>)
    /\ UNCHANGED <<kind, props, ent, vo, nextEv, returned, snap>>
    /\ UNCHANGED <<origin, outsideInstance>>

\* instance.addDomainEvent(event), a public method of the return-style
\* aggregate: the event object the caller has just built is pushed onto
\* the pending list
AddDomainEvent ==
    /\ kind = "rsagg"
    /\ nextEv < MaxEvents
    /\ events' = Append(events, nextEv + 1)
    /\ nextEv' = nextEv + 1
    /\ cleared' = FALSE
    /\ last' = Call("addDomainEvent", kind, "none", NoData, FALSE, <<nextEv + 1>>)
    /\ UNCHANGED <<kind, props, ent, vo, returned, snap>>
    /\ UNCHANGED <<origin, outsideInstance>>

\* ---------------------------------------------------------- snapshots
ReadState ==
    /\ kind \in Aggregates \cup {"entity"}
    /\ snap' = CASE kind = "agg" -> AggregateState(props)
                 [] kind = "rsagg" -> RSAggregateState(props)
                 [] kind = "entity" -> EntitySnapshot(ent)
    /\ last' = Call("state", kind, "none", NoData, FALSE, <<>>)
    /\ UNCHANGED <<kind, props, ent, vo, events, nextEv, returned>>
    /\ UNCHANGED <<cleared, origin, outsideInstance>>

\* order.isPaid, order.totalPrice
ReadComputed ==
    /\ kind = "agg"
    /\ last' = Call("computed", kind, "none", NoData, FALSE, Computed(props))
    /\ UNCHANGED <<kind, props, ent, vo, events, nextEv, returned, snap>>
    /\ UNCHANGED <<cleared, origin, outsideInstance>>

\* snapshot.id = "Z": a frozen object refuses the write (strict mode)
WriteSnapshot ==
    /\ snap.has
    /\ IF snap.frozen
       THEN /\ snap' = snap
            /\ last' = Call("write", kind, "TypeError", NoData, FALSE, <<>>)
       ELSE /\ snap' = [snap EXCEPT !.top.id = "Z"]
            /\ last' = Call("write", kind, "none", NoData, FALSE, <<>>)
    /\ UNCHANGED <<kind, props, ent, vo, events, nextEv, returned>>
    /\ UNCHANGED <<cleared, origin, outsideInstance>>

\* snapshot.items.push(p) or snapshot.items.length = 0
WriteNested(w) ==
    /\ snap.has
    /\ kind \in Aggregates
    /\ LET cell == IF snap.alias THEN props.items ELSE snap.items
           val == IF w = "push" THEN Append(cell.val, Product) ELSE <<>>
       IN /\ w = "push" => Len(cell.val) < MaxItems
          /\ w = "clear" => cell.val # <<>>
          /\ IF cell.frozen
             THEN /\ UNCHANGED <<props, snap>>
                  /\ last' = Call("writeNested", kind, "TypeError", NoData, FALSE, <<>>)
             ELSE /\ props' = IF snap.alias THEN [props EXCEPT !.items.val = val] ELSE props
                  /\ snap' = IF snap.alias THEN snap ELSE [snap EXCEPT !.items.val = val]
                  /\ last' = Call("writeNested", kind, "none", NoData, FALSE, <<>>)
    /\ UNCHANGED <<kind, ent, vo, events, nextEv, returned>>
    /\ UNCHANGED <<cleared, origin, outsideInstance>>

\* ------------------------------------------------------ port registry
Unresolved == [by |-> "", on |-> "unresolved"]

CreatePort ==
    /\ portRegistry # Ports
    /\ LET r == createPort(portRegistry)
       IN /\ portRegistry' = r.registry
          /\ last' = Call("createPort", r.port, "none", NoFactory, FALSE, NoImpl)
    /\ UNCHANGED <<container, lastBind, binds, prior, invoked, failed>>
    /\ UNCHANGED outsideDI

\* what a bind call that ended as r leaves behind
Bound(op, h, F, r) ==
    /\ container' = r.container
    /\ IF r.err = "none"
       THEN /\ lastBind' = [lastBind EXCEPT ![h] = F]
            /\ binds' = [binds EXCEPT ![h] = IF @ = 0 THEN 1 ELSE 2]
            /\ invoked' = [invoked EXCEPT ![h] = IF h \in r.ran THEN 1 ELSE 0]
            /\ failed' = failed \ {h}
       ELSE UNCHANGED <<lastBind, binds, invoked, failed>>
    /\ last' = Call(op, h, r.err, F, FALSE, NoImpl)
    /\ UNCHANGED <<portRegistry, prior>>
    /\ UNCHANGED outsideDI

SetPortAdapter(h, a) ==
    /\ h \in portRegistry \cup {FakeHandle}
    /\ Bound("setPortAdapter", h, ConstFactory(a),
             setPortAdapter(portRegistry, container, h, a))

\* the factory closes over the handle of the port it resolves, which is
\* another port than the one it is bound to
SetPortAdapterWithDependencies(h, F) ==
    /\ h \in portRegistry \cup {FakeHandle}
    /\ F.dep \in portRegistry
    /\ F.dep # h
    /\ Bound("setPortAdapterWithDependencies", h, F,
             setPortAdapterWithDependencies(portRegistry, container, h, F))

UsePort(h) ==
    /\ h \in portRegistry \cup {FakeHandle}
    /\ LET r == usePort(portRegistry, container, h)
       IN /\ \A n \in r.ran : invoked[n] < MaxInvocations
          /\ container' = r.container
          /\ invoked' = [n \in Ports |-> IF n \in r.ran THEN invoked[n] + 1 ELSE invoked[n]]
          /\ failed' = IF r.err # "none" THEN failed \cup r.ran ELSE failed
          /\ last' = Call("usePort", h, r.err, NoFactory, FALSE, r.ret)
    /\ UNCHANGED <<portRegistry, lastBind, binds, prior>>
    /\ UNCHANGED outsideDI

ResetDI ==
    /\ container' = resetDI(container)
    /\ prior' = [n \in Ports |->
                   IF container.service[n] # NoImpl THEN container.service[n]
                   ELSE IF container.provider[n] # NoFactory THEN Unresolved
                   ELSE NoImpl]
    /\ lastBind' = [n \in Ports |-> NoFactory]
    /\ binds' = [n \in Ports |-> 0]
    /\ invoked' = [n \in Ports |-> 0]
    /\ failed' = {}
    /\ last' = Call("resetDI", "", "none", NoFactory, FALSE, NoImpl)
    /\ UNCHANGED portRegistry
    /\ UNCHANGED outsideDI

\* ------------------------------------------------------------ equality
\* two instances are created, of entity classes built by one createEntity;
\* the classes' id schema is z.uuid(), or (branded) transforms the string
\* into a BrandedId, which builds one object for left and another for right
MakeEntities(v, a, b, branded) ==
    /\ left = NoOperand
    /\ left' = Operand(v, a.type, a.id, IF branded THEN 1 ELSE 0, a.name, "", "absent")
    /\ right' = Operand(v, b.type, b.id, IF branded THEN 2 ELSE 0, b.name, "", "absent")
    /\ last' = Call("create", v, "none", NoData, FALSE, <<>>)
    /\ UNCHANGED outsideEq

\* or of the Address value object, from input its schema accepts
MakeValueObjects(a, b) ==
    /\ left = NoOperand
    /\ ValueObjectCreate(a).err = "none"
    /\ ValueObjectCreate(b).err = "none"
    /\ left' = Operand("vo", "Address", "", 0, "", ValueObjectCreate(a).props.top.city,
                       ValueObjectCreate(a).props.top.coords)
    /\ right' = Operand("vo", "Address", "", 0, "", ValueObjectCreate(b).props.top.city,
                        ValueObjectCreate(b).props.top.coords)
    /\ last' = Call("create", "vo", "none", NoData, FALSE, <<>>)
    /\ UNCHANGED outsideEq

\* an entity action that changes an attribute other than id
UpdateName(n) ==
    /\ left.tag \in EntityVersions
    /\ left' = [left EXCEPT !.name = n]
    /\ last' = Call("action", left.tag, "none", NoData, FALSE, <<>>)
    /\ UNCHANGED <<right, outsideEq>>

\* left.equals(right), right.equals(left), left.equals(left),
\* left.equals(null), left.equals(undefined)
CallEquals ==
    /\ left # NoOperand
    /\ last' = Call("equals", left.tag, "none", NoData, FALSE,
                    [ab |-> Equals(left, right), ba |-> Equals(right, left),
                     aa |-> Equals(left, left), null |-> Equals(left, Operand("null", "", "", 0, "", "", "absent")),
                     undefined |-> Equals(left, Operand("undefined", "", "", 0, "", "", "absent"))])
    /\ UNCHANGED <<left, right, outsideEq>>

Create ==
    \/ \E d \in RawOrders : CreateAggregate(d)
    \/ \E d \in RawOrders : CreateRSAggregate(d)
    \/ \E c \in RawCustomers : CreateEntity(c)
    \/ \E d \in RawAddresses : CreateValueObject(d)

Act ==
    \/ \E a \in ActionFns : CallAction(a)
    \/ \E a \in EntityActionFns : CallEntityAction(a)

\* the life of an instance: creation, action calls, event retrieval
Next ==
    \/ Create
    \/ Act
    \/ GetPendingEvents
    \/ ClearEvents
    \/ AddDomainEvent

Spec == Init /\ [][Next]_vars

\* the life of an instance and of the snapshots its caller reads and tries
\* to write
NextSnap ==
    \/ Create
    \/ Act
    \/ AddDomainEvent
    \/ ReadState
    \/ ReadComputed
    \/ WriteSnapshot
    \/ \E w \in {"push", "clear"} : WriteNested(w)

SpecSnap == Init /\ [][NextSnap]_vars

\* the composition root and the use cases: ports are declared, bound,
\* resolved and reset
NextDI ==
    \/ CreatePort
    \/ \E h \in Handles, a \in Adapters : SetPortAdapter(h, a)
    \/ \E h \in Handles, F \in DepFactories : SetPortAdapterWithDependencies(h, F)
    \/ \E h \in Handles : UsePort(h)
    \/ ResetDI

SpecDI == Init /\ [][NextDI]_vars

\* ------------------------------------------------------------ relation
CreateRelation(v) ==
    /\ linker = NoLinker
    /\ linker' = RelationCreate(v)
    /\ last' = Call("createRelation", "relation", "none", NoData, FALSE, <<>>)
    /\ UNCHANGED <<entityA, entityB, outsideRel>>

Link(fn) ==
    /\ linker # NoLinker
    /\ fn.increment => entityB.value < MaxValue
    /\ LET r == RelationLink(linker, fn, entityA, entityB)
       IN /\ linker' = r.linker
          /\ entityA' = r.entityA
          /\ entityB' = r.entityB
          /\ last' = Call("link", "relation", r.err, NoData, FALSE, fn)
    /\ UNCHANGED outsideRel

\* a relation is created and its link action is called
NextRel ==
    \/ \E v \in AggregateVersions : CreateRelation(v)
    \/ \E fn \in LinkFns : Link(fn)

SpecRel == Init /\ [][NextRel]_vars

\* ------------------------------------------------------ two instances
\* a = Order.create(d); b = Order.create(d): each create parses the raw
\* object into objects of its own
CreateAggregatePair(k, d) ==
    /\ pairKind = "none"
    /\ LET r1 == IF k = "agg" THEN AggregateCreate(d) ELSE RSAggregateCreate(d)
           r2 == IF k = "agg" THEN AggregateCreate(d) ELSE RSAggregateCreate(d)
       IN /\ pairKind' = IF r1.err = "none" THEN k ELSE "none"
          /\ aggregateProps' = WeakMapSet(WeakMapSet(aggregateProps, "i1", r1.props),
                                          "i2", r2.props)
          /\ last' = Call("create", k, r1.err, d.customer, FALSE, <<>>)
    /\ UNCHANGED <<aggregateEvents, entityProps, pairEv, outsidePair>>

CreateEntityPair(c) ==
    /\ pairKind = "none"
    /\ LET r1 == EntityCreate(c)
           r2 == EntityCreate(c)
       IN /\ pairKind' = IF r1.err = "none" THEN "entity" ELSE "none"
          /\ entityProps' = WeakMapSet(WeakMapSet(entityProps, "i1", r1.props),
                                       "i2", r2.props)
          /\ last' = Call("create", "entity", r1.err, c, FALSE, <<>>)
    /\ UNCHANGED <<aggregateProps, aggregateEvents, pairEv, outsidePair>>

PairAction(i, a) ==
    /\ pairKind \in Aggregates
    /\ a.items \in {"push", "pushInPlace"} => Len(aggregateProps[i].items.val) < MaxItems
    /\ a.event => pairEv < MaxEvents
    /\ LET r == IF pairKind = "agg"
                THEN AggregateAction(aggregateProps[i], aggregateEvents[i], a, pairEv + 1)
                ELSE RSAggregateAction(aggregateProps[i], aggregateEvents[i], a, pairEv + 1)
       IN /\ aggregateProps' = WeakMapSet(aggregateProps, i, r.props)
          /\ aggregateEvents' = WeakMapSet(aggregateEvents, i, r.events)
          /\ pairEv' = IF Len(r.events) > Len(aggregateEvents[i])
                       THEN pairEv + 1 ELSE pairEv
          /\ last' = Call("action", i, r.err, NoData, FALSE, <<>>)
    /\ UNCHANGED <<pairKind, entityProps, outsidePair>>

PairEntityAction(i, a) ==
    /\ pairKind = "entity"
    /\ LET r == EntityAction(entityProps[i], a.addr, a.id)
       IN /\ entityProps' = WeakMapSet(entityProps, i, r.props)
          /\ last' = Call("action", i, r.err, NoData, FALSE, <<>>)
    /\ UNCHANGED <<pairKind, aggregateProps, aggregateEvents, pairEv, outsidePair>>

PairGetPendingEvents(i) ==
    /\ pairKind \in Aggregates
    /\ LET r == IF pairKind = "agg"
                THEN AggregateGetPendingEvents(aggregateEvents[i])
                ELSE RSAggregateGetPendingEvents(aggregateEvents[i])
       IN /\ aggregateEvents' = WeakMapSet(aggregateEvents, i, r.events)
          /\ last' = Call("getPendingEvents", i, "none", NoData, FALSE, r.ret)
    /\ UNCHANGED <<pairKind, aggregateProps, entityProps, pairEv, outsidePair>>

PairClearEvents(i) ==
    /\ pairKind \in Aggregates
    /\ aggregateEvents' = WeakMapSet(aggregateEvents, i,
                                     AggregateClearEvents(aggregateEvents[i]))
    /\ last' = Call("clearEvents", i, "none", NoData, FALSE, <<>>)
    /\ UNCHANGED <<pairKind, aggregateProps, entityProps, pairEv, outsidePair>>

PairAddDomainEvent(i) ==
    /\ pairKind = "rsagg"
    /\ pairEv < MaxEvents
    /\ aggregateEvents' = WeakMapSet(aggregateEvents, i,
                                     Append(aggregateEvents[i], pairEv + 1))
    /\ pairEv' = pairEv + 1
    /\ last' = Call("addDomainEvent", i, "none", NoData, FALSE, <<pairEv + 1>>)
    /\ UNCHANGED <<pairKind, aggregateProps, entityProps, outsidePair>>

\* two instances made from one raw object, each called in turn
NextPair ==
    \/ \E k \in Aggregates, d \in RawOrders : CreateAggregatePair(k, d)
    \/ \E c \in RawCustomers : CreateEntityPair(c)
    \/ \E i \in Instances, a \in PairActionFns : PairAction(i, a)
    \/ \E i \in Instances, a \in EntityActionFns : PairEntityAction(i, a)
    \/ \E i \in Instances : PairGetPendingEvents(i)
    \/ \E i \in Instances : PairClearEvents(i)
    \/ \E i \in Instances : PairAddDomainEvent(i)

SpecPair == Init /\ [][NextPair]_vars

\* ------------------------------------------- return-style entity
CreateRSEntity(d) ==
    /\ rsEntity = NoEntityProps
    /\ LET r == RSEntityCreate(d)
       IN /\ rsEntity' = r.props
          /\ last' = Call("create", "rsentity", r.err, NoData, FALSE, d)
    /\ UNCHANGED outsideEntity

CallRSEntityAction(fn) ==
    /\ rsEntity # NoEntityProps
    /\ fn.name \in {"addItem", "pushItem"} => Len(rsEntity.items.val) < MaxItems
    /\ LET r == RSEntityAction(rsEntity, fn)
       IN /\ rsEntity' = r.props
          /\ last' = Call("action", "rsentity", r.err, NoData, FALSE, fn)
    /\ UNCHANGED outsideEntity

ReadRSEntityState ==
    /\ rsEntity # NoEntityProps
    /\ LET r == RSEntityState(rsEntity)
       IN /\ rsEntity' = r.props
          /\ last' = Call("state", "rsentity", "none", NoData, FALSE, r.ret)
    /\ UNCHANGED outsideEntity

\* an entity is created, its actions are called and its state is read
NextEntity ==
    \/ \E d \in RawEntityOrders : CreateRSEntity(d)
    \/ \E fn \in RSEntityActionFns : CallRSEntityAction(fn)
    \/ ReadRSEntityState

SpecEntity == Init /\ [][NextEntity]_vars

\* ------------------------------------------------- booking example
\* the modules load with version v of createAggregate: TimeSlot.create
\* builds the seeded slot and timeSlots.set(initialSlot.id, initialSlot)
\* stores it
LoadTimeSlotRepository(v) ==
    /\ slotObjects = <<>>
    /\ LET initialSlot == [version |-> v, id |-> SeededSlot, isBooked |-> FALSE]
       IN /\ slotObjects' = <<initialSlot>>
          /\ timeSlots' = (TimeSlotId(initialSlot) :> 1) @@ timeSlots
    /\ UNCHANGED <<direct, appointments, calls, outsideBooking>>

\* scheduleAppointmentUseCase(input) up to its first await: parse, usePort,
\* the call of findTimeSlotById
StartCall(c, slotId) ==
    /\ slotObjects # <<>>
    /\ calls[c].pc = "idle"
    /\ calls' = [calls EXCEPT ![c] =
                   IF slotId = BadUuid
                   THEN [NoCall EXCEPT !.pc = "raised", !.slotId = slotId,
                                       !.err = "ZodError"]
                   ELSE [NoCall EXCEPT !.pc = "awaitFind", !.slotId = slotId,
                                       !.timeSlot = findTimeSlotByIdMemory(timeSlots, slotId)]]
    /\ UNCHANGED <<timeSlots, slotObjects, direct, appointments, outsideBooking>>

\* from the first await to the second: the check of the slot found,
\* Appointment.create, and the call of saveAppointment, whose body runs to
\* its end
FoundTimeSlot(c) ==
    /\ calls[c].pc = "awaitFind"
    /\ IF calls[c].timeSlot = 0
       THEN /\ calls' = [calls EXCEPT ![c].pc = "raised", ![c].err = "TimeSlotNotFound"]
            /\ UNCHANGED <<timeSlots, slotObjects, appointments>>
       ELSE LET made == AppointmentCreate(c, slotObjects[calls[c].timeSlot])
                saved == saveAppointmentMemory(timeSlots, slotObjects, appointments,
                                               made.appointment)
            IN IF made.err # "none"
               THEN /\ calls' = [calls EXCEPT ![c].pc = "raised", ![c].err = made.err]
                    /\ UNCHANGED <<timeSlots, slotObjects, appointments>>
               ELSE /\ calls' = [calls EXCEPT ![c].pc = "awaitSave", ![c].err = saved.err]
                    /\ timeSlots' = saved.timeSlots
                    /\ slotObjects' = saved.slotObjects
                    /\ appointments' = saved.appointments
    /\ UNCHANGED <<direct, outsideBooking>>

\* after the second await: the rejection is raised, or the use case returns
SavedAppointment(c) ==
    /\ calls[c].pc = "awaitSave"
    /\ calls' = [calls EXCEPT ![c].pc = IF calls[c].err = "none"
                                        THEN "returned" ELSE "raised"]
    /\ UNCHANGED <<timeSlots, slotObjects, direct, appointments, outsideBooking>>

\* TimeSlot.create(d), of the class the modules loaded: schema.parse, then
\* the instance is built
CreateTimeSlot(d) ==
    /\ slotObjects # <<>>
    /\ Len(slotObjects) < MaxSlots
    /\ slotObjects' = IF d.id = BadUuid THEN slotObjects
                      ELSE Append(slotObjects, [version |-> slotObjects[1].version,
                                                id |-> d.id, isBooked |-> d.isBooked])
    /\ direct' = TRUE
    /\ UNCHANGED <<timeSlots, appointments, calls, outsideBooking>>

\* saveTimeSlotMemory(slot): timeSlots.set(slot.id, slot)
SaveTimeSlot(o) ==
    /\ o \in DOMAIN slotObjects
    /\ timeSlots' = (TimeSlotId(slotObjects[o]) :> o) @@ timeSlots
    /\ direct' = TRUE
    /\ UNCHANGED <<slotObjects, appointments, calls, outsideBooking>>

\* slot.actions.book(), slot.actions.cancelBooking() on an instance
CallTimeSlotAction(o, name) ==
    /\ o \in DOMAIN slotObjects
    /\ slotObjects' = [slotObjects EXCEPT ![o] =
                          IF name = "book" THEN TimeSlotBook(@).props
                          ELSE TimeSlotCancelBooking(@).props]
    /\ direct' = TRUE
    /\ UNCHANGED <<timeSlots, appointments, calls, outsideBooking>>

\* the use case is called concurrently, a call running from await to
\* await; the repository and the slots are also open to direct calls
NextBooking ==
    \/ \E v \in AggregateVersions : LoadTimeSlotRepository(v)
    \/ \E c \in Calls, slotId \in {SeededSlot, "T", BadUuid} : StartCall(c, slotId)
    \/ \E c \in Calls : FoundTimeSlot(c)
    \/ \E c \in Calls : SavedAppointment(c)
    \/ \E d \in [id : {SeededSlot, "T", BadUuid}, isBooked : BOOLEAN] : CreateTimeSlot(d)
    \/ \E o \in 1..MaxSlots : SaveTimeSlot(o)
    \/ \E o \in 1..MaxSlots, name \in {"book", "cancelBooking"} :
          CallTimeSlotAction(o, name)

SpecBooking == Init /\ [][NextBooking]_vars

\* instances are created, changed and compared
NextEq ==
    \/ \E v \in EntityVersions, branded \in BOOLEAN :
         \E a, b \in [type : {"User", "Product"}, id : Uuids, name : Names] :
            MakeEntities(v, a, b, branded)
    \/ \E a, b \in RawAddresses : MakeValueObjects(a, b)
    \/ \E n \in Names : UpdateName(n)
    \/ CallEquals

SpecEq == Init /\ [][NextEq]_vars

\* ============================================================ properties
Obs == Observable(kind, props, ent)
Id == Identity(kind, props, ent)

SchemaAccepts(target, d) ==
    CASE target = "entity" -> CustomerInfoSchemaOK(d)
      [] target = "vo" -> AddressSchemaOK(d)
      [] OTHER -> OrderSchemaOK(d)

\* C1: an action call that raises an invariant's error leaves the value of
\* instance.state deep-equal to its value before the call, and a call that
\* does not raise leaves a state that satisfies the invariants.
RollbackOnInvariantViolation ==
    [][last'.op = "action" /\ kind \in Aggregates =>
          /\ last'.err \in InvariantErrors => Obs' = Obs
          /\ last'.err = "none" => CheckInvariants(props') = "none"]_vars

\* C2: every action call on an aggregate whose state satisfies the
\* invariants, raising or not, nested entity actions included, ends in a
\* state that satisfies them.
InvariantsAlwaysHold ==
    [][(last'.op = "action" /\ kind \in Aggregates /\ CheckInvariants(props) = "none")
          => CheckInvariants(props') = "none"]_vars

\* C3: an action call that raises leaves the pending-events list as it was;
\* an event is appended only by a call that commits.
EventOnlyOnCommit ==
    [][(last'.op = "action" /\ last'.err # "none") => events' = events]_vars

\* C4: getPendingEvents() never returns an event that an earlier call has
\* returned, and a call that immediately follows another returns the empty
\* list.
EventDrain ==
    [][last'.op = "getPendingEvents" =>
          /\ Range(last'.ret) \cap returned = {}
          /\ last.op = "getPendingEvents" => last'.ret = <<>>]_vars

\* C5: create() on raw input that fails the schema raises the validation
\* error and produces no instance, for the aggregate, entity and value
\* object factories.
CreateRejectsInvalidInput ==
    (last.op = "create" /\ ~SchemaAccepts(last.target, last.data))
        => (last.err = "ZodError" /\ kind = "none")

CreateRejectedInput ==
    /\ last.op = "create"
    /\ last.target = "agg"
    /\ ~OrderSchemaOK(last.data)
    /\ last.err = "ZodError"
    /\ kind = "none"

\* C6: create() of an aggregate on raw input that passes the schema and
\* violates an invariant raises that invariant's error and produces no
\* instance.
CreateEnforcesInvariants ==
    (/\ last.op = "create"
     /\ last.target \in Aggregates
     /\ OrderSchemaOK(last.data)
     /\ CheckInvariants(ParseOrder(last.data)) # "none")
        => (last.err = CheckInvariants(ParseOrder(last.data)) /\ kind = "none")

\* C7: an assignment to a property of the object instance.state returned
\* raises, and neither the snapshot nor the instance's state changes.
SnapshotWriteProtected ==
    [][last'.op = "write" =>
          (last'.err = "TypeError" /\ snap' = snap /\ Obs' = Obs)]_vars

SnapshotWriteRefused ==
    /\ last.op = "write"
    /\ last.err = "TypeError"
    /\ snap.has
    /\ snap.top.id = Id

\* C8: every nested array reachable from the value instance.state returned
\* is frozen, at any point of the instance's lifetime.
SnapshotDeepFrozen ==
    (snap.has /\ kind \in Aggregates)
        => (IF snap.alias THEN props.items.frozen ELSE snap.items.frozen)

\* C9: an outer action that has called the nested entity's action and then
\* fails an outer invariant leaves the nested entity's part of
\* instance.state, like the rest of it, as it was before the call.
NestedEntityRollback ==
    [][(last'.op = "action" /\ last'.nested /\ last'.err \in InvariantErrors)
          => (Obs'.customer = Obs.customer /\ Obs' = Obs)]_vars

\* C10: a successful action does not change the value of instance.id.
IdentityStable ==
    [][(last'.op = "action" /\ last'.err = "none") => Id' = Id]_vars


\* C11: an action call whose action function itself raises leaves the value
\* of instance.state and the pending-events list as they were before the
\* call, so what earlier successful calls committed persists.
PreconditionFailureNoOp ==
    [][(last'.op = "action" /\ kind \in Aggregates /\ last'.err \in {"PreconditionFailed", "AddressTooShort"})
          => (Obs' = Obs /\ events' = events)]_vars

\* C12: usePort(h) returns the adapter that the most recent
\* setPortAdapter(h, a) call was given, whatever usePort(h) calls came
\* between the bind calls.
BindReplaces ==
    (/\ last.op = "usePort"
     /\ last.err = "none"
     /\ lastBind[last.target].kind = "const")
        => last.ret = Impl(lastBind[last.target].adapter)

\* C13: usePort on a declared port that no bind call has bound raises the
\* 'No implementation found' error, which is not the error raised for an
\* unregistered handle.
ResolveBeforeBindFails ==
    [][(last'.op = "usePort" /\ last'.target \in portRegistry /\ binds[last'.target] = 0)
          => (last'.err = ResolutionError /\ last'.err \notin RegistrationErrors)]_vars

ResolvedUnboundPort ==
    /\ last.op = "usePort"
    /\ last.target \in portRegistry
    /\ binds[last.target] = 0
    /\ last.err = ResolutionError

\* C14: setPortAdapter and usePort called with a handle createPort() did not
\* produce raise the 'invalid or unregistered port' error and leave the
\* registry and every binding as they were.
UnregisteredHandleRejected ==
    [][(last'.op \in {"setPortAdapter", "usePort"} /\ last'.target = FakeHandle)
          => (/\ last'.err \in RegistrationErrors
              /\ container' = container
              /\ portRegistry' = portRegistry)]_vars

RejectedUnregisteredHandle ==
    /\ last.op \in {"setPortAdapter", "usePort"}
    /\ last.target = FakeHandle
    /\ last.err \in RegistrationErrors
    /\ container.providerMap # {}

\* C15: after resetDI(), usePort on a port that was bound when the reset
\* ran, and has not been bound since, raises the 'invalid or unregistered
\* port' error.
ResetInvalidatesDeclarations ==
    (/\ last.op = "usePort"
     /\ last.target \in portRegistry
     /\ prior[last.target] # NoImpl
     /\ binds[last.target] = 0)
        => last.err \in RegistrationErrors

\* C16: once a port has been bound and resolved and resetDI() has run,
\* setPortAdapter with the original handle succeeds, and usePort then
\* returns the adapter of that bind, not what the port resolved to before
\* the reset.
ResetThenRebind ==
    /\ (last.op = "setPortAdapter" /\ last.target \in portRegistry) => last.err = "none"
    /\ (/\ last.op = "usePort"
        /\ last.target \in portRegistry
        /\ prior[last.target] \notin {NoImpl, Unresolved}
        /\ binds[last.target] = 1
        /\ lastBind[last.target].kind = "const")
           => (last.err = "none" /\ last.ret = Impl(lastBind[last.target].adapter))

ReboundAfterReset ==
    /\ last.op = "usePort"
    /\ last.err = "none"
    /\ prior[last.target] \notin {NoImpl, Unresolved}
    /\ binds[last.target] = 1
    /\ last.ret = Impl(lastBind[last.target].adapter)
    /\ last.ret # prior[last.target]

\* C17: setPortAdapterWithDependencies does not invoke the factory, and once
\* usePort has returned for a port so bound, the factory has been invoked
\* exactly once since the bind call, provided no invocation found the port
\* it depends on unbound.
LazySingleShotFactory ==
    /\ (last.op = "setPortAdapterWithDependencies" /\ last.err = "none")
          => invoked[last.target] = 0
    /\ (/\ last.op = "usePort"
        /\ last.err = "none"
        /\ lastBind[last.target].kind = "dep"
        /\ last.target \notin failed)
           => invoked[last.target] = 1

\* C18: a.equals(b) on entities is true exactly when a and b are instances
\* of the same entity class and carry the same id, whatever their other
\* attributes, and false for null and undefined.
EntityEquality ==
    (last.op = "equals" /\ left.tag \in EntityVersions)
        => (/\ last.ret.ab = (left.type = right.type /\ left.id = right.id)
            /\ ~last.ret.null
            /\ ~last.ret.undefined)

\* C19: a.equals(b) on value objects of one type is true exactly when their
\* props are deeply equal, presence of optional attributes included; it is
\* reflexive and symmetric, and false for null and undefined.
ValueObjectEquality ==
    (last.op = "equals" /\ left.tag = "vo")
        => (/\ last.ret.ab = DeepEqual(left, right)
            /\ last.ret.aa
            /\ last.ret.ab = last.ret.ba
            /\ ~last.ret.null
            /\ ~last.ret.undefined)

ComparedEqualValueObjects ==
    /\ last.op = "equals"
    /\ left.tag = "vo"
    /\ left.coords = "here"
    /\ right.coords = "hereAgain"
    /\ last.ret.ab

\* C20: clearEvents() leaves the value of instance.state as it was, and
\* from then on getPendingEvents() returns the empty list, until an action
\* call that produces an event has returned without raising.
ClearEventsDiscards ==
    [][/\ last'.op = "clearEvents" => Obs' = Obs
       /\ (cleared /\ last'.op = "getPendingEvents") => last'.ret = <<>>]_vars

\* C21: a read of the computed properties returns the configured functions
\* of what instance.state shows at that moment, an action call that raises
\* leaves their values as they were, and no computed key is a key of
\* instance.state.
ComputedTracksState ==
    [][/\ last'.op = "computed" =>
             last'.ret = [isPaid |-> Obs'.status = "paid",
                          totalPrice |-> Len(Obs'.items)]
       /\ (last'.op = "action" /\ kind = "agg" /\ last'.err # "none")
             => Computed(props') = Computed(props)
       /\ snap'.has => DOMAIN snap'.top \cap {"isPaid", "totalPrice"} = {}]_vars

ComputedReadAfterPay ==
    /\ last.op = "computed"
    /\ last.ret.isPaid
    /\ last.ret.totalPrice = 1
    /\ Obs.status = "paid"

\* C22: the value instance.state returns holds, under the nested entity's
\* key, a plain object of the entity schema's shape with the entity's
\* current values, never the entity instance.
DehydratedSnapshot ==
    /\ (snap.has /\ kind \in Aggregates)
          => DOMAIN snap.top.customer = {"id", "address"}
    /\ (last.op = "state" /\ kind \in Aggregates)
          => snap.top.customer = Obs.customer

SnapshotAfterNestedAction ==
    /\ last.op = "state"
    /\ kind = "agg"
    /\ snap.top.customer.address # origin.address
    /\ snap.top.customer = Obs.customer
    /\ CheckInvariants(props) = "none"

\* C23: a relation.actions.link call whose link function raises after it
\* has applied an action to entityA leaves entityA.state, entityB.state and
\* relation.state as they were before the call.
LinkAtomic ==
    [][(/\ last'.op = "link"
        /\ last'.err = "LinkFailed"
        /\ last'.ret.name # "keep")
          => /\ entityA' = entityA
             /\ entityB' = entityB
             /\ RelationState(linker', entityA', entityB')
                  = RelationState(linker, entityA, entityB)]_vars

\* C24: a usePort call leaves the registry as it was and leaves what every
\* port resolves to as it was, so that the next usePort call on the same
\* handle returns the implementation this one returned.
ResolveDoesNotConsume ==
    [][last'.op = "usePort" =>
          /\ portRegistry' = portRegistry
          /\ \A n \in Ports :
                LET before == usePort(portRegistry, container, n)
                    after == usePort(portRegistry', container', n)
                IN after.err = before.err /\ after.ret = before.ret
          /\ last'.err = "none" =>
                usePort(portRegistry', container', last'.target).ret = last'.ret]_vars

ResolvedFromCache ==
    /\ last.op = "usePort"
    /\ last.err = "none"
    /\ last.ret # NoImpl
    /\ container.service[last.target] = last.ret
    /\ binds[last.target] = 1
    /\ invoked[last.target] = 1

\* what usePort returns or raises for port n
Resolution(reg, c, n) ==
    LET r == usePort(reg, c, n) IN [err |-> r.err, ret |-> r.ret]

SnapshotIsolated ==
    [][(last'.op = "action" /\ last'.err = "none" /\ snap.has)
          => /\ snap'.top = snap.top
             /\ (IF snap'.alias THEN props'.items.val ELSE snap'.items.val)
                  = (IF snap.alias THEN props.items.val ELSE snap.items.val)]_vars

\* C27: the pending-events list holds, in the order they were produced,
\* exactly the events of the successful actions since the last
\* getPendingEvents() or clearEvents() call, and getPendingEvents() returns
\* it: a successful action appends its event, if it produces one, at the
\* end, any other action call adds nothing, and the two calls that drain
\* leave the list empty.
PendingEventsFIFO ==
    [][/\ (last'.op = "action" /\ last'.err = "none")
             => events' = IF nextEv' > nextEv
                          THEN Append(events, nextEv') ELSE events
       /\ (last'.op = "action" /\ last'.err # "none") => events' = events
       /\ last'.op = "getPendingEvents"
             => (last'.ret = events /\ events' = <<>>)
       /\ last'.op = "clearEvents" => events' = <<>>]_vars

\* what instance i shows: instance.state and the pending events
InstanceShows(i) ==
    [state |-> Observable(pairKind, aggregateProps[i], entityProps[i]),
     events |-> aggregateEvents[i]]

\* C28: an action, getPendingEvents() or clearEvents() call on one instance
\* leaves the state and the pending events of every other instance as they
\* were, also when the instances were created from the same raw data.
InstancesIndependent ==
    [][\A i \in Instances :
          (/\ last'.op \in {"action", "getPendingEvents", "clearEvents"}
           /\ last'.target = i)
             => \A j \in Instances \ {i} : InstanceShows(j)' = InstanceShows(j)]_vars

InstancesDiverged ==
    /\ pairKind = "agg"
    /\ last.op = "action"
    /\ last.err = "none"
    /\ last.target = "i1"
    /\ InstanceShows("i1") # InstanceShows("i2")
    /\ aggregateEvents["i1"] # <<>>
    /\ aggregateEvents["i2"] = <<>>
    /\ aggregateProps["i2"].status = "pending"

\* C29: a read of instance.state leaves the entity's internal properties,
\* and the objects they hold, as they were, so that every action call ends
\* after the read as it would have ended without it.
ReadStateNoSideEffect ==
    [][last'.op = "state" =>
          /\ rsEntity' = rsEntity
          /\ \A fn \in RSEntityActionFns :
                RSEntityAction(rsEntity', fn) = RSEntityAction(rsEntity, fn)]_vars

\* C30: as long as the repository and the slots are reached through
\* scheduleAppointmentUseCase only, whatever the interleaving of the calls
\* for the seeded, initially unbooked slot, at most one appointment is
\* stored for it; a call that returns has stored its appointment, a call
\* that raises has stored none, at most one call returns, and once a call
\* for the slot has finished the slot is booked.
NoDoubleBooking ==
    ~direct =>
       /\ Cardinality({c \in Calls : /\ calls[c].slotId = SeededSlot
                                     /\ \E a \in appointments : a.id = c}) <= 1
       /\ \A c \in Calls :
             /\ calls[c].pc = "returned" => (\E a \in appointments : a.id = c)
             /\ calls[c].pc = "raised" => ~(\E a \in appointments : a.id = c)
             /\ (calls[c].pc \in {"returned", "raised"} /\ calls[c].slotId = SeededSlot)
                   => slotObjects[1].isBooked
       /\ Cardinality({c \in Calls : calls[c].pc = "returned"}) <= 1

====
